---- MODULE Spec2Model ----
(***************************************************************************)
(* Quiz pipeline of quiz-fighter-backend: question generation per text     *)
(* segment, theme summary, game matching, config mutation and the two      *)
(* request handlers that sequence them.                                    *)
(*                                                                         *)
(* A Python dict is a function whose DOMAIN is the set of keys present.    *)
(* A Python str that the code inspects (config text, game code) is a       *)
(* sequence of tokens; the empty sequence is the empty string.             *)
(***************************************************************************)
EXTENDS Integers, Sequences, FiniteSets, TLC

VARIABLES
    \* ---- generate_quiz_questions called on its own (SpecGen) ----
    n,              \* argument n: number of parts
    sub_n,          \* argument sub_n: questions requested per part
    gen_pc,         \* "call" | "gather" | "returned"
    calls,          \* number of generation calls issued so far
    responses,      \* part index -> what the backend answered (or Pending)
    results,        \* part index -> what generate_questions_for_part returned
    quiz_out,       \* the returned quiz_data
    \* ---- one request through generate_quiz_get / generate_quiz_post (Spec) ----
    method,         \* "GET" | "POST" | "none"
    device,         \* the device query parameter
    input_ok,       \* GET: user_query is non-empty; POST: filename ends in .pdf
    content,        \* what text acquisition returned: "unset" | "empty" (the
                    \* empty string) | "placeholder" (the fixed sentence of
                    \* wiki_search_with_claude when nothing was found) | "text"
    pc,             \* handler position
    response,       \* what the handler returned, or the exception that escaped it
    quiz_task,      \* the task running generate_quiz_questions(content)
    theme_task,     \* the task running generate_theme_summary(content)
    store,          \* "none" | "client": initialize_supabase has returned
    questions,      \* the question dicts, shared by every stage, in quiz order
    match_state,    \* per question: "pending" | "querying" | "failed" | "ok" (the store query)
    cfg,            \* per eligible question: its process_question_config task
    \* ---- the split of the text inside generate_quiz_questions (SpecPart) ----
    context,        \* the text handed to generate_quiz_questions, a sequence of characters
    parts,          \* the list parts built by the loop over range(n)
    sent,           \* the part_text of every generation call issued, in call order
    theme_text      \* the text handed to generate_theme_summary, or NoText

genVars == <<n, sub_n, gen_pc, calls, responses, results, quiz_out>>

reqVars == <<method, device, input_ok, content, pc, response, quiz_task, theme_task,
             store, questions, match_state, cfg>>

partVars == <<context, parts, sent, theme_text>>

vars == <<genVars, reqVars, partVars>>

-----------------------------------------------------------------------------
(* Bounds of the exploration *)

MaxN == 2           \* largest n tried
MaxRecs == 2        \* most question records in one backend answer
MaxQuestions == 2   \* parts whose call can return a question within a request
MaxLen == 4         \* longest text that is split

(* Program constants *)

DefaultN == 10
DefaultSubN == 3

-----------------------------------------------------------------------------
(* Python dict helpers *)

Has(d, k) == k \in DOMAIN d

Put(d, k, v) == [x \in (DOMAIN d) \cup {k} |-> IF x = k THEN v ELSE d[x]]

Pop(d, k) == [x \in (DOMAIN d) \ {k} |-> d[x]]

EmptyDict == [x \in {} |-> 0]

InSeq(x, s) == \E i \in 1..Len(s) : s[i] = x

-----------------------------------------------------------------------------
(* What the generation backend can answer for one part *)

Placeholder == "Error: Choices not generated properly"

McGood ==
    Put(Put(Put(Put(Put(EmptyDict, "question_type", "multiple_choice"),
        "choices", <<"A", "B">>), "correct_answer", "A"),
        "difficulty", "easy"), "success_pun", "Pun!")

\* a multiple-choice record that omits choices, difficulty and success_pun
McBare ==
    Put(Put(EmptyDict, "question_type", "multiple_choice"), "correct_answer", "A")

TrueFalse ==
    Put(Put(Put(Put(EmptyDict, "question_type", "true_false"),
        "correct_answer", "True"), "difficulty", "easy"), "success_pun", "Pun!")

\* a record without question_type
NoType == Put(EmptyDict, "correct_answer", "A")

GenRecords == {McGood, McBare, NoType}

RECURSIVE SeqsUpTo(_, _)
SeqsUpTo(S, k) ==
    IF k = 0 THEN {<<>>}
    ELSE LET shorter == SeqsUpTo(S, k - 1)
         IN shorter \cup {Append(s, x) : s \in {t \in shorter : Len(t) = k - 1}, x \in S}

Pending == [kind |-> "pending", questions |-> <<>>]
BackendError == [kind |-> "error", questions |-> <<>>]
NoToolUse == [kind |-> "no_tool_use", questions |-> <<>>]
ToolUse(qs) == [kind |-> "tool_use", questions |-> qs]

GenResponses ==
    {BackendError, NoToolUse} \cup {ToolUse(qs) : qs \in SeqsUpTo(GenRecords, MaxRecs)}

\* values of sub_n tried: 1, the default, and one for which two parts exceed 10
SubNs == {1, DefaultSubN, 2 * DefaultSubN}

-----------------------------------------------------------------------------
(* generate_questions_for_part *)

\* a variant that renumbers but never backfills choices
PostProcessNoChoices(q, number) ==
    LET q1 == Put(q, "question_number", number)
        q3 == IF ~Has(q1, "difficulty") THEN Put(q1, "difficulty", "medium") ELSE q1
    IN IF ~Has(q3, "success_pun") THEN Put(q3, "success_pun", "Great job!") ELSE q3

\* the body of the loop over the returned records
PostProcess(q, number) ==
    LET q1 == Put(q, "question_number", number)
        q2 == IF q1["question_type"] = "multiple_choice" /\ ~Has(q1, "choices")
              THEN Put(q1, "choices", <<Placeholder>>) ELSE q1
        q3 == IF ~Has(q2, "difficulty") THEN Put(q2, "difficulty", "medium") ELSE q2
    IN IF ~Has(q3, "success_pun") THEN Put(q3, "success_pun", "Great job!") ELSE q3

\* q["question_type"] raises KeyError; the except clause turns it into []
RaisesInLoop(qs) == \E i \in 1..Len(qs) : ~Has(qs[i], "question_type")

\* the records of a tool-use answer, renumbered from start_num
Renumbered(part_index, sub, resp) ==
    LET start_num == part_index * sub + 1
    IN [i \in 1..Len(resp.questions) |->
            PostProcess(resp.questions[i], start_num + (i - 1))]

\* a variant without the except clause: a backend error or a KeyError leaves
\* the task
GenerateQuestionsForPartUncaught(part_index, sub, resp) ==
    IF resp.kind = "error" \/ (resp.kind = "tool_use" /\ RaisesInLoop(resp.questions))
    THEN [raised |-> TRUE, questions |-> <<>>]
    ELSE IF resp.kind = "tool_use"
    THEN [raised |-> FALSE, questions |-> Renumbered(part_index, sub, resp)]
    ELSE [raised |-> FALSE, questions |-> <<>>]

\* what the task of one part returns; every exception is caught and
\* becomes the empty list, so the task never raises
GenerateQuestionsForPart(part_index, sub, resp) ==
    IF resp.kind = "tool_use" /\ ~RaisesInLoop(resp.questions)
    THEN [raised |-> FALSE, questions |-> Renumbered(part_index, sub, resp)]
    ELSE [raised |-> FALSE, questions |-> <<>>]

-----------------------------------------------------------------------------
(* generate_quiz_questions *)

\* a variant that keeps only 10 \div sub_n parts when n * sub_n exceeds 10
PartIndexesCapped(k) ==
    IF k * sub_n > 10
    THEN 0..((IF 10 \div sub_n < 1 THEN 1 ELSE 10 \div sub_n) - 1)
    ELSE 0..(k - 1)

\* one part, hence one task and one generation call, per i in range(n)
PartIndexes(k) == 0..(k - 1)

RECURSIVE FlattenFrom(_, _, _)
FlattenFrom(res, i, k) ==
    IF i >= k THEN <<>> ELSE res[i] \o FlattenFrom(res, i + 1, k)

\* a variant that stops at the first part that contributed nothing
FlattenUntilEmpty(res, k) ==
    LET RECURSIVE From(_)
        From(i) == IF i >= k \/ res[i] = <<>> THEN <<>> ELSE res[i] \o From(i + 1)
    IN From(0)

Flatten(res, k) == FlattenFrom(res, 0, k)

QuizData(res, k) ==
    LET all_questions == Flatten(res, k)
    IN [total_questions |-> Len(all_questions), questions |-> all_questions]

NoQuiz == [total_questions |-> 0, questions |-> <<>>]

\* the whole call, given what the backend answers for each part
GenerateQuizQuestions(k, sub, resp) ==
    LET task_results == [i \in PartIndexes(k) |-> GenerateQuestionsForPart(i, sub, resp[i])]
    IN [raised |-> \E i \in PartIndexes(k) : task_results[i].raised,
        value |-> QuizData([i \in PartIndexes(k) |-> task_results[i].questions], k)]

\* a request handler's state while generate_quiz_questions is called directly
NoResponse ==
    [kind |-> "none", detail |-> "", total_questions |-> 0,
     questions |-> <<>>, theme_summary |-> ""]

\* the two tasks of a handler before asyncio.create_task
NoTask == [started |-> FALSE, done |-> FALSE, raised |-> FALSE, value |-> NoQuiz]

NoThemeTask ==
    [started |-> FALSE, done |-> FALSE, raised |-> FALSE, outcome |-> "none", value |-> ""]

\* a text that is not a text: nothing was handed over yet
NoText == <<"None">>

\* nothing is being split
PartIdle ==
    /\ context = <<>>
    /\ parts = <<>>
    /\ sent = <<>>
    /\ theme_text = NoText

ReqIdle ==
    /\ method = "none"
    /\ device = "web"
    /\ input_ok = TRUE
    /\ content = "unset"
    /\ pc = "idle"
    /\ response = NoResponse
    /\ quiz_task = NoTask
    /\ theme_task = NoThemeTask
    /\ store = "none"
    /\ questions = <<>>
    /\ match_state = <<>>
    /\ cfg = <<>>

GenInit ==
    /\ ReqIdle
    /\ PartIdle
    /\ n \in 1..MaxN
    /\ sub_n \in SubNs
    /\ gen_pc = "call"
    /\ calls = 0
    /\ responses = [i \in PartIndexes(n) |-> Pending]
    /\ results = [i \in PartIndexes(n) |-> <<>>]
    /\ quiz_out = NoQuiz

\* asyncio.gather starts every task; each runs up to its await of the backend
GenStartTasks ==
    /\ gen_pc = "call"
    /\ gen_pc' = "gather"
    /\ calls' = Cardinality(PartIndexes(n))
    /\ UNCHANGED <<n, sub_n, responses, results, quiz_out, reqVars, partVars>>

\* the backend answers part i (in any order); the task runs to its return.
\* An exception leaving a task would leave gather and generate_quiz_questions.
GenPartDone(i) ==
    /\ gen_pc = "gather"
    /\ responses[i] = Pending
    /\ \E resp \in GenResponses :
        LET r == GenerateQuestionsForPart(i, sub_n, resp)
        IN /\ responses' = [responses EXCEPT ![i] = resp]
           /\ results' = [results EXCEPT ![i] = r.questions]
           /\ gen_pc' = IF r.raised THEN "raised" ELSE gen_pc
    /\ UNCHANGED <<n, sub_n, calls, quiz_out, reqVars, partVars>>

\* gather returns once every task has; the results are flattened in part order
GenReturn ==
    /\ gen_pc = "gather"
    /\ \A i \in PartIndexes(n) : responses[i] # Pending
    /\ gen_pc' = "returned"
    /\ quiz_out' = QuizData(results, n)
    /\ UNCHANGED <<n, sub_n, calls, responses, results, reqVars, partVars>>

GenNext ==
    \/ GenStartTasks
    \/ \E i \in PartIndexes(n) : GenPartDone(i)
    \/ GenReturn

SpecGen == GenInit /\ [][GenNext]_vars

-----------------------------------------------------------------------------
(* Texts the code inspects, as token sequences *)

CC == "const config ="
WS == " "

Decl(body) == <<CC, "{", body, "}", ";">>

\* Python None in an int-valued field and in a str-valued field
NoneId == -1
NoneText == <<"None">>

TruthyId(v) == v # NoneId /\ v # 0
TruthyText(t) == t # NoneText /\ t # <<>>

RECURSIVE Strip(_)
Strip(t) ==
    IF t = <<>> THEN t
    ELSE IF Head(t) = WS THEN Strip(Tail(t))
    ELSE IF t[Len(t)] = WS THEN Strip(SubSeq(t, 1, Len(t) - 1))
    ELSE t

-----------------------------------------------------------------------------
(* The game store: table game_data *)

Game(id, dev, qtype, config, code) ==
    [id |-> id, device |-> dev, question_type |-> qtype, config |-> config, code |-> code]

GameData ==
    { Game(7, "web", "multiple_choice", Decl("red"),
           <<"<script>">> \o Decl("red") \o <<"run()">>),
      Game(8, "web", "multiple_choice", <<>>,
           <<"<script>">> \o Decl("red") \o <<"run()">>),
      Game(9, "web", "true_false", Decl("blue"), <<"run()">>),
      Game(0, "mobile", "true_false", Decl("red"),
           Decl("red") \o <<"run()">>) }

GameById(id) == CHOOSE g \in GameData : g.id = id

-----------------------------------------------------------------------------
(* match_question_with_game *)

\* a variant that leaves out the games other questions already hold
MatchedGamesUnused(data, dev, question_type) ==
    {g \in data : /\ g.device = dev /\ g.question_type = question_type
                  /\ \A i \in 1..Len(questions) :
                        ~(Has(questions[i], "game_id") /\ questions[i]["game_id"] = g.id)}

\* a variant that filters on the device only
MatchedGamesAnyType(data, dev, question_type) ==
    {g \in data : g.device = dev}

\* the client-side filter over response.data
MatchedGames(data, dev, question_type) ==
    {g \in data : g.device = dev /\ g.question_type = question_type}

NoMatchFields(question) ==
    Put(Put(Put(question, "game_id", NoneId),
        "original_config", NoneText), "original_code", NoneText)

\* a variant without the except clause: a failed query escapes the task
MatchQuestionWithGameUncaught(question, dev, query) ==
    IF query.failed
    THEN [raised |-> TRUE, question |-> question]
    ELSE IF MatchedGames(query.data, dev, question["question_type"]) # {}
    THEN [raised |-> FALSE,
          question |-> Put(Put(Put(question, "game_id", query.selected.id),
                "original_config", query.selected.config),
                "original_code", query.selected.code)]
    ELSE [raised |-> FALSE, question |-> NoMatchFields(question)]

\* query = the outcome of the store query and, when games match, the pick of
\* random.choice; every exception is caught inside the function
MatchQuestionWithGame(question, dev, query) ==
    IF query.failed
    THEN [raised |-> FALSE, question |-> NoMatchFields(question)]
    ELSE IF MatchedGames(query.data, dev, question["question_type"]) # {}
    THEN [raised |-> FALSE,
          question |-> Put(Put(Put(question, "game_id", query.selected.id),
                "original_config", query.selected.config),
                "original_code", query.selected.code)]
    ELSE [raised |-> FALSE, question |-> NoMatchFields(question)]

NoGame == Game(NoneId, "", "", NoneText, NoneText)

\* what one store query can do for a question of the given type
Queries(dev, question_type) ==
    {[failed |-> TRUE, data |-> {}, selected |-> NoGame]}
    \cup (IF MatchedGames(GameData, dev, question_type) = {}
          THEN {[failed |-> FALSE, data |-> GameData, selected |-> NoGame]}
          ELSE {[failed |-> FALSE, data |-> GameData, selected |-> g] :
                    g \in MatchedGames(GameData, dev, question_type)})

-----------------------------------------------------------------------------
(* replace_config_in_code *)

\* re.search of  const\s+config\s*=\s*(\{[\s\S]*?\})\s*;  : the leftmost
\* declaration start, then the nearest closing brace followed by a semicolon.
\* <<0, 0>> when there is no match, else <<first, last>> token positions.
Closers(t, i) == {j \in (i + 2)..(Len(t) - 1) : t[j] = "}" /\ t[j + 1] = ";"}

Starts(t) ==
    {i \in 1..Len(t) : i + 1 <= Len(t) /\ t[i] = CC /\ t[i + 1] = "{" /\ Closers(t, i) # {}}

Min(S) == CHOOSE x \in S : \A y \in S : x <= y

SearchConfig(t) ==
    IF Starts(t) = {} THEN <<0, 0>>
    ELSE LET i == Min(Starts(t)) IN <<i, Min(Closers(t, i)) + 1>>

\* group(1): the brace-delimited object of the match
Group1(t) == LET m == SearchConfig(t) IN SubSeq(t, m[1] + 1, m[2] - 1)

\* the declaration that is spliced in
Declaration(updated_config) ==
    IF Strip(updated_config) # <<>> /\ Head(Strip(updated_config)) = CC
    THEN updated_config
    ELSE IF SearchConfig(updated_config) # <<0, 0>>
    THEN <<CC>> \o Group1(updated_config) \o <<";">>
    ELSE LET wrapped == <<CC>> \o Strip(updated_config)
         IN IF wrapped[Len(wrapped)] = ";" THEN wrapped ELSE Append(wrapped, ";")

ReplaceConfigInCode(original_code, updated_config) ==
    LET m == SearchConfig(original_code)
    IN IF m = <<0, 0>> THEN original_code
       ELSE SubSeq(original_code, 1, m[1] - 1) \o Declaration(updated_config)
            \o SubSeq(original_code, m[2] + 1, Len(original_code))

-----------------------------------------------------------------------------
(* update_config_with_theme and process_question_config *)

\* what the backend can answer to one config call
CfgTexts == {Decl("green"), <<"{", "green", "}">>, <<WS>>}

CfgOutcomes ==
    {[kind |-> "error", text |-> <<>>], [kind |-> "empty", text |-> <<>>]}
    \cup {[kind |-> "text", text |-> t] : t \in CfgTexts \cup {<<>>}}

MaxAttempts == 2

\* wait_exponential(multiplier=1, min=2, max=6)
WaitMultiplier == 1
WaitMin == 2
WaitMax == 6

Max2(a, b) == IF a >= b THEN a ELSE b
Min2(a, b) == IF a <= b THEN a ELSE b

\* a variant without the lower clamp
WaitExponentialNoMin(attempt_number) ==
    Min2(WaitMultiplier * 2 ^ (attempt_number - 1), WaitMax)

\* the sleep after failed attempt attempt_number: the exponential value
\* clamped into [min, max]
WaitExponential(attempt_number) ==
    Max2(WaitMin, Min2(WaitMultiplier * 2 ^ (attempt_number - 1), WaitMax))

\* one attempt of update_config_with_theme: the value it returns, or raised
UpdateConfigAttempt(original_config, outcome) ==
    IF outcome.kind = "error" THEN [raised |-> TRUE, value |-> <<>>]
    ELSE IF outcome.kind = "empty" THEN [raised |-> FALSE, value |-> original_config]
    ELSE [raised |-> FALSE,
          value |-> IF outcome.text # <<>> THEN Strip(outcome.text) ELSE original_config]

\* a variant that leaves the transient fields on the question
ProcessQuestionConfigNoCleanup(question, updated_config) ==
    LET original_code == IF Has(question, "original_code")
                         THEN question["original_code"] ELSE <<>>
    IN IF TruthyText(updated_config) /\ TruthyText(original_code)
       THEN Put(question, "code", ReplaceConfigInCode(original_code, updated_config))
       ELSE question

\* a variant that also stores the generated text in a config field
ProcessQuestionConfigWithConfig(question, updated_config) ==
    LET original_code == IF Has(question, "original_code")
                         THEN question["original_code"] ELSE <<>>
        q1 == IF TruthyText(updated_config) /\ TruthyText(original_code)
              THEN Put(question, "code", ReplaceConfigInCode(original_code, updated_config))
              ELSE question
    IN Pop(Pop(Put(q1, "config", updated_config), "original_config"), "original_code")

\* the rest of process_question_config once update_config_with_theme returned
ProcessQuestionConfig(question, updated_config) ==
    LET original_code == IF Has(question, "original_code")
                         THEN question["original_code"] ELSE <<>>
        q1 == IF TruthyText(updated_config) /\ TruthyText(original_code)
              THEN Put(question, "code", ReplaceConfigInCode(original_code, updated_config))
              ELSE question
    IN Pop(Pop(q1, "original_config"), "original_code")

-----------------------------------------------------------------------------
(* update_game_configs *)

Eligible(q) ==
    /\ Has(q, "game_id") /\ TruthyId(q["game_id"])
    /\ Has(q, "original_config") /\ TruthyText(q["original_config"])

\* positions (in order) of the eligible questions
RECURSIVE EligibleFrom(_, _)
EligibleFrom(qs, i) ==
    IF i > Len(qs) THEN <<>>
    ELSE (IF Eligible(qs[i]) THEN <<i>> ELSE <<>>) \o EligibleFrom(qs, i + 1)

EligibleIndexes(qs) == EligibleFrom(qs, 1)

\* a variant in which every task works on the first eligible question
CfgTaskShared(i) ==
    [q |-> 1, attempt |-> 1, failures |-> 0, wait |-> 0, state |-> "calling",
     updated_config |-> <<>>]

\* a variant whose task is created but never scheduled
CfgTaskNotScheduled(i) ==
    [q |-> i, attempt |-> 1, failures |-> 0, wait |-> 0, state |-> "created",
     updated_config |-> <<>>]

\* the task of process_question_config for question i: attempt counts the
\* generation calls issued, failures the calls that raised, wait is the sleep
\* before the latest call, updated_config the value update_config_with_theme
\* returned
CfgTask(i) ==
    [q |-> i, attempt |-> 1, failures |-> 0, wait |-> 0, state |-> "calling",
     updated_config |-> <<>>]

\* a variant that hands every input question back
UpdatedQuestionsAll(qs, tasks) == qs

\* gather's result: the task results in task order
UpdatedQuestions(qs, tasks) == [t \in 1..Len(tasks) |-> qs[tasks[t].q]]

-----------------------------------------------------------------------------
(* generate_theme_summary *)

ThemeFallback == "Unable to generate theme summary."

\* a variant without the except clause: a backend failure leaves the function
GenerateThemeSummaryUncaught(outcome) ==
    IF outcome = "error" THEN [raised |-> TRUE, value |-> ""]
    ELSE IF outcome = "text" THEN [raised |-> FALSE, value |-> "A summary of the theme."]
    ELSE [raised |-> FALSE, value |-> ThemeFallback]

\* the backend call fails, answers with no content, or answers with a text;
\* the failure is caught and becomes the fallback string
GenerateThemeSummary(outcome) ==
    IF outcome = "text" THEN [raised |-> FALSE, value |-> "A summary of the theme."]
    ELSE [raised |-> FALSE, value |-> ThemeFallback]

-----------------------------------------------------------------------------
(* The request handlers generate_quiz_get and generate_quiz_post *)

Ok(qs, theme) ==
    [kind |-> "ok", detail |-> "", total_questions |-> Len(qs),
     questions |-> qs, theme_summary |-> theme]

Error(detail) ==
    [kind |-> "error", detail |-> detail, total_questions |-> 0,
     questions |-> <<>>, theme_summary |-> ""]

\* an exception that leaves the handler
Escaped(exc) ==
    [kind |-> "exception", detail |-> exc, total_questions |-> 0,
     questions |-> <<>>, theme_summary |-> ""]

Devices == {"web", "mobile", "tv"}

\* a variant that accepts every device
AnyDevice(d) == TRUE

\* the device check that opens both handlers
ValidDevice(d) == d \in {"web", "mobile"}

\* a variant that goes on as soon as quiz_task has returned
QuizAwaited == quiz_task.done

\* quiz_data = await quiz_task; theme_summary = await theme_task
BothAwaited == quiz_task.done /\ theme_task.done

\* a variant without the emptiness check
AssembleAlways(updated_questions, theme) == Ok(updated_questions, theme)

\* the end of both handlers: the no-match error or the response
AssembleResponse(updated_questions, theme) ==
    IF updated_questions = <<>> THEN Error("no_match")
    ELSE Ok(updated_questions, theme)

\* what the backend answers per part within a request: only the first
\* MaxQuestions parts can answer with a question, every other call fails
ReqResponses == {BackendError, NoToolUse, ToolUse(<<McGood>>), ToolUse(<<TrueFalse>>)}

ReqBackend ==
    {[i \in PartIndexes(DefaultN) |-> IF i < MaxQuestions THEN f[i] ELSE BackendError] :
        f \in [0..(MaxQuestions - 1) -> ReqResponses]}

Init ==
    /\ PartIdle
    /\ method \in {"GET", "POST"}
    /\ device \in Devices
    /\ input_ok \in BOOLEAN
    /\ content = "unset"
    /\ pc = "validate"
    /\ response = NoResponse
    /\ quiz_task = NoTask
    /\ theme_task = NoThemeTask
    /\ store = "none"
    /\ questions = <<>>
    /\ match_state = <<>>
    /\ cfg = <<>>
    /\ n = DefaultN
    /\ sub_n = DefaultSubN
    /\ gen_pc = "idle"
    /\ calls = 0
    /\ responses = <<>>
    /\ results = <<>>
    /\ quiz_out = NoQuiz

Finish(resp) ==
    /\ pc' = "done"
    /\ response' = resp

\* the device check, then the user_query check (GET) or the filename check (POST)
Validate ==
    /\ pc = "validate"
    /\ IF ~ValidDevice(device) THEN Finish(Error("device"))
       ELSE IF ~input_ok
       THEN Finish(Error(IF method = "GET" THEN "no_query" ELSE "not_pdf"))
       ELSE pc' = "acquire" /\ UNCHANGED response
    /\ UNCHANGED <<method, device, input_ok, content, quiz_task, theme_task, store,
                   questions, match_state, cfg, genVars, partVars>>

\* GET: content = await wiki_search_with_claude(user_query). The function is
\* synchronous: either its own backend call raises, or it returns a str and
\* awaiting a str raises TypeError.
AcquireWiki ==
    /\ pc = "acquire" /\ method = "GET"
    /\ \E outcome \in {"backend_error", "nothing_found", "text"} :
        /\ content' = IF outcome = "text" THEN "text"
                      ELSE IF outcome = "nothing_found" THEN "placeholder"
                      ELSE content
        /\ Finish(Escaped(IF outcome = "backend_error" THEN "BackendError"
                          ELSE "TypeError"))
    /\ UNCHANGED <<method, device, input_ok, quiz_task, theme_task, store,
                   questions, match_state, cfg, genVars, partVars>>

\* POST: save the upload and extract its text inside try/except; then create
\* quiz_task and theme_task
AcquirePdf ==
    /\ pc = "acquire" /\ method = "POST"
    /\ \E outcome \in {"io_error", "empty", "text"} :
        IF outcome = "io_error"
        THEN /\ Finish(Error("pdf_error"))
             /\ UNCHANGED <<content, quiz_task, theme_task>>
        ELSE IF outcome = "empty"
        THEN /\ content' = "empty"
             /\ Finish(Error("no_content"))
             /\ UNCHANGED <<quiz_task, theme_task>>
        ELSE /\ content' = "text"
             /\ pc' = "generate"
             /\ quiz_task' = [quiz_task EXCEPT !.started = TRUE]
             /\ theme_task' = [theme_task EXCEPT !.started = TRUE]
             /\ UNCHANGED response
    /\ UNCHANGED <<method, device, input_ok, store,
                   questions, match_state, cfg, genVars, partVars>>

\* quiz_task: generate_quiz_questions(content) with the default n and sub_n
QuizTaskDone ==
    /\ pc = "generate" /\ quiz_task.started /\ ~quiz_task.done
    /\ \E resp \in ReqBackend :
        LET r == GenerateQuizQuestions(DefaultN, DefaultSubN, resp)
        IN quiz_task' = [quiz_task EXCEPT
                            !.done = TRUE, !.raised = r.raised, !.value = r.value]
    /\ UNCHANGED <<method, device, input_ok, content, pc, response, theme_task, store,
                   questions, match_state, cfg, genVars, partVars>>

\* theme_task: generate_theme_summary(content)
ThemeTaskDone ==
    /\ pc = "generate" /\ theme_task.started /\ ~theme_task.done
    /\ \E outcome \in {"error", "empty", "text"} :
        LET r == GenerateThemeSummary(outcome)
        IN theme_task' = [theme_task EXCEPT
                             !.done = TRUE, !.raised = r.raised,
                             !.outcome = outcome, !.value = r.value]
    /\ UNCHANGED <<method, device, input_ok, content, pc, response, quiz_task, store,
                   questions, match_state, cfg, genVars, partVars>>

\* both awaits have returned (an exception of a task is raised by its await);
\* initialize_supabase raises ValueError when the
\* environment lacks its settings; match_questions_with_games creates one task
\* per question
StartMatch ==
    /\ pc = "generate" /\ BothAwaited
    /\ \E configured \in BOOLEAN :
        IF quiz_task.raised
        THEN /\ Finish(Escaped("BackendError"))
             /\ UNCHANGED <<store, questions, match_state>>
        ELSE IF theme_task.raised
        THEN /\ Finish(Escaped("ThemeError"))
             /\ UNCHANGED <<store, questions, match_state>>
        ELSE IF ~configured
        THEN /\ Finish(Escaped("ValueError"))
             /\ UNCHANGED <<store, questions, match_state>>
        ELSE /\ pc' = "match"
             /\ store' = "client"
             /\ questions' = quiz_task.value.questions
             /\ match_state' = [i \in 1..Len(quiz_task.value.questions) |-> "pending"]
             /\ UNCHANGED response
    /\ UNCHANGED <<method, device, input_ok, content, quiz_task, theme_task, cfg, genVars, partVars>>

\* the thread of the event loop is not inside a blocking call
LoopFree == \A j \in 1..Len(match_state) : match_state[j] # "querying"

\* the task of question i starts and calls execute() on the store client.
\* The call is synchronous and not awaited or handed to a thread, so it holds
\* the thread of the event loop until it returns: tasks start in the order
\* they were created, and none starts while a query is out.
MatchQuery(i) ==
    /\ pc = "match"
    /\ LoopFree
    /\ match_state[i] = "pending"
    /\ \A j \in 1..(i - 1) : match_state[j] \in {"failed", "ok"}
    /\ match_state' = [match_state EXCEPT ![i] = "querying"]
    /\ UNCHANGED <<method, device, input_ok, content, pc, response, quiz_task, theme_task,
                   store, questions, cfg, genVars, partVars>>

\* match_question_with_game for question i. The store query is a synchronous
\* call, so a task runs from start to return without suspending and the tasks
\* run in the order they were created.
MatchTask(i) ==
    /\ pc = "match"
    /\ match_state[i] = "querying"
    /\ \E query \in Queries(device, questions[i]["question_type"]) :
        LET r == MatchQuestionWithGame(questions[i], device, query)
        IN IF r.raised
           THEN /\ Finish(Escaped("StoreError"))
                /\ UNCHANGED <<questions, match_state>>
           ELSE /\ questions' = [questions EXCEPT ![i] = r.question]
                /\ match_state' = [match_state EXCEPT
                                      ![i] = IF query.failed THEN "failed" ELSE "ok"]
                /\ UNCHANGED <<pc, response>>
    /\ UNCHANGED <<method, device, input_ok, content, quiz_task, theme_task, store, cfg, genVars, partVars>>

\* gather over the match tasks has returned; update_game_configs creates one
\* task per eligible question, or returns [] when there is none, and the
\* handler then returns the no-match error
UpdateGameConfigs ==
    /\ pc = "match"
    /\ \A i \in 1..Len(questions) : match_state[i] \in {"failed", "ok"}
    /\ LET eligible == EligibleIndexes(questions)
       IN IF eligible = <<>>
          THEN /\ Finish(AssembleResponse(<<>>, theme_task.value))
               /\ UNCHANGED cfg
          ELSE /\ pc' = "mutate"
               /\ cfg' = [t \in 1..Len(eligible) |-> CfgTask(eligible[t])]
               /\ UNCHANGED response
    /\ UNCHANGED <<method, device, input_ok, content, quiz_task, theme_task, store,
                   questions, match_state, genVars, partVars>>

\* gather has propagated the RetryError of one task out of the handler; it
\* cancels nothing, so the other config tasks run on in the event loop
Orphaned == pc = "done" /\ response = Escaped("RetryError")

\* one generation call of task t returns or fails. A failure is retried until
\* MaxAttempts calls were made; then tenacity raises RetryError, which leaves
\* process_question_config, gather, update_game_configs and the handler.
ConfigCall(t) ==
    /\ pc = "mutate" \/ Orphaned
    /\ cfg[t].state = "calling"
    /\ \E outcome \in CfgOutcomes :
        LET q == questions[cfg[t].q]
            r == UpdateConfigAttempt(q["original_config"], outcome)
        IN IF r.raised /\ cfg[t].attempt < MaxAttempts
           THEN /\ cfg' = [cfg EXCEPT ![t].attempt = @ + 1,
                                        ![t].failures = @ + 1,
                                        ![t].wait = WaitExponential(cfg[t].attempt)]
                /\ UNCHANGED <<questions, pc, response>>
           ELSE IF r.raised
           THEN /\ cfg' = [cfg EXCEPT ![t].state = "raised", ![t].failures = @ + 1]
                /\ IF Orphaned THEN UNCHANGED <<pc, response>>
                   ELSE Finish(Escaped("RetryError"))
                /\ UNCHANGED questions
           ELSE /\ cfg' = [cfg EXCEPT ![t].state = "done",
                                        ![t].updated_config = r.value]
                /\ questions' = [questions EXCEPT
                                    ![cfg[t].q] = ProcessQuestionConfig(q, r.value)]
                /\ UNCHANGED <<pc, response>>
    /\ UNCHANGED <<method, device, input_ok, content, quiz_task, theme_task, store,
                   match_state, genVars, partVars>>

\* gather over the config tasks has returned; the handler builds its response
Assemble ==
    /\ pc = "mutate"
    /\ \A t \in 1..Len(cfg) : cfg[t].state = "done"
    /\ Finish(AssembleResponse(UpdatedQuestions(questions, cfg), theme_task.value))
    /\ UNCHANGED <<method, device, input_ok, content, quiz_task, theme_task, store,
                   questions, match_state, cfg, genVars, partVars>>

Next ==
    \/ Validate
    \/ AcquireWiki
    \/ AcquirePdf
    \/ QuizTaskDone
    \/ ThemeTaskDone
    \/ StartMatch
    \/ \E i \in 1..Len(questions) : MatchQuery(i)
    \/ \E i \in 1..Len(questions) : MatchTask(i)
    \/ UpdateGameConfigs
    \/ \E t \in 1..Len(cfg) : ConfigCall(t)
    \/ Assemble

Spec == Init /\ [][Next]_vars

\* every generation call, store query and text acquisition eventually returns
\* or fails, and the event loop runs every task that is ready
FairSpec == Spec /\ WF_vars(Next)

-----------------------------------------------------------------------------
(* The split of the text: a handler creates quiz_task and theme_task with the
   same content; generate_quiz_questions divides it into parts and issues one
   generation call per part *)

Alphabet == {"a", "b"}

Texts == SeqsUpTo(Alphabet, MaxLen)

\* the values of n tried: negative, zero and positive
PartNs == (-1)..MaxN

\* the Python slice t[start:end] for 0 <= start
Slice(t, start, end) == SubSeq(t, start + 1, Min2(end, Len(t)))

\* a variant that splits only the leading two thirds of the text
SplitInputTwoThirds(ctx) == SubSeq(ctx, 1, (2 * Len(ctx)) \div 3)

\* the text the loop slices: context itself
SplitInput(ctx) == ctx

\* part_length = len(context) // n
PartLength(ctx, k) == Len(SplitInput(ctx)) \div k

\* a variant whose last part is as long as the others
PartTextEqual(ctx, k, i) ==
    LET start == i * PartLength(ctx, k)
    IN Slice(SplitInput(ctx), start, start + PartLength(ctx, k))

\* the part appended by iteration i of the loop over range(k)
PartText(ctx, k, i) ==
    LET start == i * PartLength(ctx, k)
        end == IF i < k - 1 THEN start + PartLength(ctx, k) ELSE Len(SplitInput(ctx))
    IN Slice(SplitInput(ctx), start, end)

PartInit ==
    /\ ReqIdle
    /\ context \in Texts
    /\ n \in PartNs
    /\ sub_n = DefaultSubN
    /\ gen_pc = "start"
    /\ calls = 0
    /\ responses = <<>>
    /\ results = <<>>
    /\ quiz_out = NoQuiz
    /\ parts = <<>>
    /\ sent = <<>>
    /\ theme_text = NoText

\* the handler creates both tasks with content; generate_quiz_questions
\* computes part_length, which raises ZeroDivisionError for n = 0
PartStart ==
    /\ gen_pc = "start"
    /\ theme_text' = context
    /\ gen_pc' = IF n = 0 THEN "raised" ELSE "split"
    /\ UNCHANGED <<n, sub_n, calls, responses, results, quiz_out, context, parts, sent,
                   reqVars>>

\* one iteration of  for i in range(n)
PartAppend ==
    /\ gen_pc = "split"
    /\ Len(parts) < n
    /\ parts' = Append(parts, PartText(context, n, Len(parts)))
    /\ UNCHANGED <<n, sub_n, gen_pc, calls, responses, results, quiz_out, context, sent,
                   theme_text, reqVars>>

\* the loop is over (at once when n is negative)
PartLoopEnd ==
    /\ gen_pc = "split"
    /\ Len(parts) >= n
    /\ gen_pc' = "issue"
    /\ UNCHANGED <<n, sub_n, calls, responses, results, quiz_out, partVars, reqVars>>

\* the task of the next part issues its generation call with its part_text
PartCall ==
    /\ gen_pc = "issue"
    /\ calls < Len(parts)
    /\ calls' = calls + 1
    /\ sent' = Append(sent, parts[calls + 1])
    /\ UNCHANGED <<n, sub_n, gen_pc, responses, results, quiz_out, context, parts,
                   theme_text, reqVars>>

\* every part has its call; gather over them returns
PartReturn ==
    /\ gen_pc = "issue"
    /\ calls = Len(parts)
    /\ gen_pc' = "returned"
    /\ UNCHANGED <<n, sub_n, calls, responses, results, quiz_out, partVars, reqVars>>

PartNext ==
    \/ PartStart
    \/ PartAppend
    \/ PartLoopEnd
    \/ PartCall
    \/ PartReturn

SpecPart == PartInit /\ [][PartNext]_vars

-----------------------------------------------------------------------------
(* Properties of generate_quiz_questions (checked under SpecGen) *)

GenReturned == gen_pc = "returned"

\* the backend answered part i with a tool-use result whose records all
\* carry question_type
WellFormed(i) ==
    responses[i].kind = "tool_use" /\ ~RaisesInLoop(responses[i].questions)

Degraded(i) ==
    \/ responses[i].kind \in {"error", "no_tool_use"}
    \/ responses[i].kind = "tool_use" /\ RaisesInLoop(responses[i].questions)

GoodParts == {i \in PartIndexes(n) : WellFormed(i)}

RECURSIVE ReturnedRecords(_)
ReturnedRecords(S) ==
    IF S = {} THEN 0
    ELSE LET i == CHOOSE x \in S : TRUE
         IN Len(responses[i].questions) + ReturnedRecords(S \ {i})

\* position in the output of record k of part i
OutputIndex(i, k) == ReturnedRecords({j \in GoodParts : j < i}) + k

OutQuestions == quiz_out.questions

C5_FailureIsolated ==
    /\ gen_pc # "raised"
    /\ GenReturned =>
        /\ \A i \in PartIndexes(n) : Degraded(i) => results[i] = <<>>
        /\ quiz_out.total_questions = ReturnedRecords(GoodParts)
        /\ \A i \in GoodParts : \A k \in 1..Len(responses[i].questions) :
            \E j \in 1..Len(OutQuestions) :
                /\ OutQuestions[j]["question_number"] = i * sub_n + k
                /\ OutQuestions[j]["question_type"] =
                        responses[i].questions[k]["question_type"]
                /\ OutQuestions[j]["correct_answer"] =
                        responses[i].questions[k]["correct_answer"]

\* C5 witness: returned, with one part degraded before a part that
\* contributed questions.
C5_Witness ==
    /\ GenReturned
    /\ \E i, j \in PartIndexes(n) :
        /\ i < j
        /\ Degraded(i)
        /\ WellFormed(j) /\ Len(responses[j].questions) > 0
        /\ Len(OutQuestions) >= Len(responses[j].questions)

\* C6 as stated: question_number is pairwise distinct over the whole output
\* and runs part_index * sub_n + 1, + 2, ... without gaps inside each part.
C6_NumbersUnique ==
    GenReturned =>
        /\ \A a, b \in 1..Len(OutQuestions) :
            a # b => OutQuestions[a]["question_number"] # OutQuestions[b]["question_number"]
        /\ \A i \in PartIndexes(n) : \A k \in 1..Len(results[i]) :
            results[i][k]["question_number"] = i * sub_n + k

\* C15 as stated: whatever order the part tasks completed in, the question
\* list is in ascending question_number order.
C15_AscendingOrder ==
    GenReturned =>
        \A a, b \in 1..Len(OutQuestions) :
            a < b => OutQuestions[a]["question_number"] < OutQuestions[b]["question_number"]

\* C10 as stated: every multiple_choice question of the output has its
\* correct_answer among its choices.
C10_AnswerAmongChoices ==
    GenReturned =>
        \A j \in 1..Len(OutQuestions) :
            OutQuestions[j]["question_type"] = "multiple_choice" =>
                /\ Has(OutQuestions[j], "choices")
                /\ InSeq(OutQuestions[j]["correct_answer"], OutQuestions[j]["choices"])

\* C10 amended: every multiple_choice question of the output has a choices
\* field: the backend's list unchanged when the record had one, the single
\* placeholder otherwise; correct_answer is what the backend returned.
C10_ChoicesPresent ==
    GenReturned =>
        \A i \in GoodParts : \A k \in 1..Len(responses[i].questions) :
            LET r == responses[i].questions[k]
                q == OutQuestions[OutputIndex(i, k)]
            IN r["question_type"] = "multiple_choice" =>
                /\ q["question_type"] = "multiple_choice"
                /\ Has(q, "choices")
                /\ q["choices"] = (IF Has(r, "choices") THEN r["choices"]
                                   ELSE <<Placeholder>>)
                /\ q["correct_answer"] = r["correct_answer"]

\* C10 witness: the output holds a multiple_choice question whose choices
\* were backfilled with the placeholder and do not contain its answer.
C10_Witness ==
    /\ GenReturned
    /\ \E j \in 1..Len(OutQuestions) :
        /\ OutQuestions[j]["question_type"] = "multiple_choice"
        /\ OutQuestions[j]["choices"] = <<Placeholder>>
        /\ ~InSeq(OutQuestions[j]["correct_answer"], OutQuestions[j]["choices"])

-----------------------------------------------------------------------------
(* Properties of a request run (checked under Spec) *)

Done == pc = "done"

MatchComplete ==
    store = "client" /\ \A i \in 1..Len(questions) : match_state[i] \in {"failed", "ok"}

HasGame(q) == Has(q, "game_id") /\ q["game_id"] # NoneId

\* question i is in the handler's response and carries a code field
Returned(i) ==
    \E j \in 1..Len(response.questions) :
        response.questions[j]["question_number"] = questions[i]["question_number"]

ReturnedWithCode(i) ==
    \E j \in 1..Len(response.questions) :
        /\ response.questions[j]["question_number"] = questions[i]["question_number"]
        /\ Has(response.questions[j], "code")

\* C2 as stated: a question whose config call failed on both attempts is
\* still returned, with code equal to its game's original code.
C2_FallbackAfterRetries ==
    Done => \A t \in 1..Len(cfg) :
        cfg[t].state = "raised" =>
            /\ response.kind = "ok"
            /\ \E j \in 1..Len(response.questions) :
                /\ response.questions[j]["question_number"] =
                        questions[cfg[t].q]["question_number"]
                /\ Has(response.questions[j], "code")
                /\ response.questions[j]["code"] =
                        GameById(questions[cfg[t].q]["game_id"]).code

\* C3 as stated: every run ends with a question set or an error payload,
\* never with an exception leaving the handler.
C3_StructuredResult == Done => response.kind \in {"ok", "error"}

\* C4 as stated: when one question's config call failed on every attempt,
\* every other eligible question is in the output with its rewritten code.
C4_SiblingsSurvive ==
    Done => \A t \in 1..Len(cfg) :
        cfg[t].state = "raised" =>
            \A u \in 1..Len(cfg) : u # t => ReturnedWithCode(cfg[u].q)

\* C7: a question whose store query failed has game_id null, no exception
\* leaves the matcher, and every question whose query succeeded is matched
\* as if nothing had failed: to a compatible game if one exists, else null.
C7_StoreFailureIsNoMatch ==
    /\ response.detail # "StoreError"
    /\ \A i \in 1..Len(questions) :
        /\ match_state[i] = "failed" =>
            /\ Has(questions[i], "game_id")
            /\ questions[i]["game_id"] = NoneId
        /\ match_state[i] = "ok" =>
            /\ Has(questions[i], "game_id")
            /\ LET games == MatchedGames(GameData, device, questions[i]["question_type"])
               IN IF games = {} THEN questions[i]["game_id"] = NoneId
                  ELSE questions[i]["game_id"] \in {g.id : g \in games}

\* C7 witness: a run that returned questions although one store query failed;
\* the failed question has no game, another one was matched to game 7.
C7_Witness ==
    /\ Done /\ response.kind = "ok"
    /\ \E i, j \in 1..Len(questions) :
        /\ match_state[i] = "failed" /\ questions[i]["game_id"] = NoneId
        /\ match_state[j] = "ok" /\ questions[j]["game_id"] = 7

\* C8: a run in which matching attached no game to any question (also when
\* there was no question at all) ends with the no-match error, and a
\* successful response never has an empty question list.
C8_NoEmptySuccess ==
    Done =>
        /\ response.kind = "ok" =>
            /\ Len(response.questions) >= 1
            /\ response.total_questions = Len(response.questions)
        /\ (MatchComplete /\ \A i \in 1..Len(questions) : ~HasGame(questions[i]))
            => response = Error("no_match")

\* C8 witness: questions were generated, none was matched, and the run ended
\* with the no-match error.
C8_Witness ==
    /\ Done /\ MatchComplete
    /\ Len(questions) >= 1
    /\ \A i \in 1..Len(questions) : ~HasGame(questions[i])
    /\ response = Error("no_match")

\* C9 as stated: the final list is exactly the questions that hold a non-null
\* game_id after matching, in order.
C9_ExactlyTheMatched ==
    (Done /\ response.kind = "ok") =>
        response.questions = SelectSeq(questions, HasGame)

\* the game question i was matched to has no config declaration in its code
NoConfigBlock(i) ==
    /\ HasGame(questions[i])
    /\ SearchConfig(GameById(questions[i]["game_id"]).code) = <<0, 0>>

\* C11 as stated: a question that went to the Config Mutator with a game whose
\* code has no config declaration is in the final output, with code equal to
\* the game's original code.
C11_NoBlockKeepsCode ==
    Done => \A t \in 1..Len(cfg) :
        NoConfigBlock(cfg[t].q) =>
            /\ response.kind = "ok"
            /\ \E j \in 1..Len(response.questions) :
                /\ response.questions[j]["question_number"] =
                        questions[cfg[t].q]["question_number"]
                /\ Has(response.questions[j], "code")
                /\ response.questions[j]["code"] =
                        GameById(questions[cfg[t].q]["game_id"]).code

\* C12: no question in the handler's response carries original_config or
\* original_code, and none does once its process_question_config task is done.
C12_NoTransientFields ==
    /\ \A j \in 1..Len(response.questions) :
        /\ ~Has(response.questions[j], "original_config")
        /\ ~Has(response.questions[j], "original_code")
    /\ \A t \in 1..Len(cfg) :
        cfg[t].state = "done" =>
            /\ ~Has(questions[cfg[t].q], "original_config")
            /\ ~Has(questions[cfg[t].q], "original_code")

\* C12 witness: a returned question that was matched to game 7 (so it carried
\* both transient fields after matching) and now carries the rewritten code.
C12_Witness ==
    /\ Done /\ response.kind = "ok"
    /\ \E j \in 1..Len(response.questions) :
        /\ response.questions[j]["game_id"] = 7
        /\ Has(response.questions[j], "code")
        /\ ~Has(response.questions[j], "original_config")

\* C13 as stated: once matching and config mutation are over, a question
\* carries both config and code exactly when its game_id is non-null, and
\* every returned question carries both.
C13_ConfigAndCodeIffGame ==
    (Done /\ response.kind = "ok") =>
        /\ \A i \in 1..Len(questions) :
            (Has(questions[i], "config") /\ Has(questions[i], "code"))
                <=> HasGame(questions[i])
        /\ \A j \in 1..Len(response.questions) :
            Has(response.questions[j], "config") /\ Has(response.questions[j], "code")

\* C13 amended: no question ever carries a config field; a question carries
\* code only if its game_id is non-null, and after its config task exactly
\* when the text update_config_with_theme returned and the game's code are
\* both non-empty; every returned question has a non-null game_id.
C13_CodeOnly ==
    /\ \A i \in 1..Len(questions) :
        /\ ~Has(questions[i], "config")
        /\ Has(questions[i], "code") => HasGame(questions[i])
    /\ \A t \in 1..Len(cfg) :
        cfg[t].state = "done" =>
            (Has(questions[cfg[t].q], "code")
                <=> /\ TruthyText(cfg[t].updated_config)
                    /\ TruthyText(GameById(questions[cfg[t].q]["game_id"]).code))
    /\ \A j \in 1..Len(response.questions) :
        /\ HasGame(response.questions[j])
        /\ ~Has(response.questions[j], "config")

\* C13 witness: a response with two matched questions, one carrying code and
\* one carrying none, neither carrying config.
C13_Witness ==
    /\ Done /\ response.kind = "ok"
    /\ \E j, k \in 1..Len(response.questions) :
        /\ HasGame(response.questions[j]) /\ Has(response.questions[j], "code")
        /\ HasGame(response.questions[k]) /\ ~Has(response.questions[k], "code")
        /\ ~Has(response.questions[j], "config")

\* C14: quiz_task and theme_task are created together, before either is
\* awaited or has returned; and the store client, the match tasks and every
\* later stage exist only after both tasks have returned.
C14_BothBeforeMatch ==
    /\ quiz_task.started <=> theme_task.started
    /\ (quiz_task.done \/ theme_task.done) =>
            (quiz_task.started /\ theme_task.started)
    /\ (store # "none" \/ pc \in {"match", "mutate"} \/ match_state # <<>>) =>
            (quiz_task.done /\ theme_task.done)

\* C14 witness: the first store query has been made, after both tasks ran.
C14_Witness ==
    /\ pc = "match" /\ store = "client"
    /\ Len(match_state) >= 1 /\ match_state[1] \in {"failed", "ok"}
    /\ quiz_task.started /\ quiz_task.done
    /\ theme_task.started /\ theme_task.done

\* C16: generate_theme_summary never raises; when its backend call failed or
\* answered with no content it returns the fixed fallback string, and no run
\* ends with an exception of the theme task.
C16_ThemeNeverRaises ==
    /\ ~theme_task.raised
    /\ response.detail # "ThemeError"
    /\ (theme_task.done /\ theme_task.outcome \in {"error", "empty"}) =>
            theme_task.value = ThemeFallback
    /\ (Done /\ response.kind = "ok") => response.theme_summary = theme_task.value

\* C16 witness: the theme call failed, the run went through matching and
\* config mutation, and returned questions with the fallback summary.
C16_Witness ==
    /\ Done /\ response.kind = "ok"
    /\ theme_task.outcome = "error"
    /\ store = "client" /\ Len(response.questions) >= 1
    /\ response.theme_summary = ThemeFallback

\* C17: a config task issues at most 2 generation calls; it issues the second
\* only after the first raised, never after an answer; and the sleep before
\* the second call is at least 2 and at most 6 time units.
C17_AtMostTwoCalls ==
    \A t \in 1..Len(cfg) :
        /\ cfg[t].attempt \in {1, 2}
        /\ cfg[t].attempt = 1 => cfg[t].wait = 0
        /\ cfg[t].attempt = 2 =>
            /\ cfg[t].failures >= 1
            /\ cfg[t].wait >= 2 /\ cfg[t].wait <= 6
        /\ (cfg[t].state = "done" /\ cfg[t].failures = 0) => cfg[t].attempt = 1
        /\ cfg[t].state = "raised" => (cfg[t].attempt = 2 /\ cfg[t].failures = 2)

\* C17 witness: a task whose first call raised and whose second call, made
\* after a sleep of 2, answered.
C17_Witness ==
    \E t \in 1..Len(cfg) :
        /\ cfg[t].state = "done"
        /\ cfg[t].attempt = 2 /\ cfg[t].failures = 1
        /\ cfg[t].wait = 2

\* record g of the store fits question q of a request for device dev
Compatible(g, q, dev) ==
    g.device = dev /\ g.question_type = q["question_type"]

\* C18: once its match task has run, a question has game_id null, or the id
\* of a store record whose device is the requested one and whose
\* question_type is the question's, together with (until the Config Mutator
\* removes them) that record's config and code; and a question whose query
\* succeeded while a compatible record exists has a non-null game_id.
C18_MatchedToCompatible ==
    \A i \in 1..Len(questions) :
        match_state[i] \in {"failed", "ok"} =>
            /\ Has(questions[i], "game_id")
            /\ \/ /\ questions[i]["game_id"] = NoneId
                  /\ pc = "match" =>
                        /\ questions[i]["original_config"] = NoneText
                        /\ questions[i]["original_code"] = NoneText
               \/ \E g \in GameData :
                    /\ g.id = questions[i]["game_id"]
                    /\ Compatible(g, questions[i], device)
                    /\ pc = "match" =>
                        /\ questions[i]["original_config"] = g.config
                        /\ questions[i]["original_code"] = g.code
            /\ (match_state[i] = "ok"
                    /\ \E g \in GameData : Compatible(g, questions[i], device))
                => questions[i]["game_id"] # NoneId

\* C18 witness: after matching, one true_false question of a web request
\* holds game 9 with that record's config and code.
C18_Witness ==
    /\ pc = "match" /\ device = "web"
    /\ \E i \in 1..Len(questions) :
        /\ match_state[i] = "ok"
        /\ questions[i]["question_type"] = "true_false"
        /\ questions[i]["game_id"] = 9
        /\ questions[i]["original_config"] = Decl("blue")
        /\ questions[i]["original_code"] = <<"run()">>

\* text acquisition found no source text: the PDF extraction returned the
\* empty string (POST), or the Wikipedia search found nothing (GET)
NoSourceText == content \in {"empty", "placeholder"}

C20_DeviceCheckedFirst ==
    /\ device \notin {"web", "mobile"} =>
        /\ pc \in {"validate", "done"}
        /\ content = "unset"
        /\ ~quiz_task.started /\ ~theme_task.started
        /\ store = "none" /\ match_state = <<>> /\ cfg = <<>>
        /\ Done => response = Error("device")
    /\ pc \in {"acquire", "generate", "match", "mutate"} =>
            device \in {"web", "mobile"}

\* C20 witness: a request for device tv has ended with the validation error,
\* nothing else having happened.
C20_Witness ==
    /\ Done /\ device = "tv"
    /\ response = Error("device")
    /\ content = "unset" /\ store = "none"

\* update_game_configs has run
ConfigStageEntered == pc = "mutate" \/ (Done /\ MatchComplete)

\* question i has a config task
HasConfigTask(i) == \E t \in 1..Len(cfg) : cfg[t].q = i

\* question i as the matcher left it: the generator's record plus the
\* three fields of its game, or of no game
AsMatched(i) ==
    LET base == quiz_task.value.questions[i]
        id == questions[i]["game_id"]
    IN IF id = NoneId THEN NoMatchFields(base)
       ELSE Put(Put(Put(base, "game_id", id),
                "original_config", GameById(id).config),
                "original_code", GameById(id).code)

\* C21 as stated: every question without a config task is in the output of
\* update_game_configs (the list the handler returns), identical to its input.
C21_OthersPassThrough ==
    (Done /\ response.kind = "ok") =>
        \A i \in 1..Len(questions) :
            ~HasConfigTask(i) =>
                /\ questions[i] = AsMatched(i)
                /\ \E j \in 1..Len(response.questions) :
                        response.questions[j] = questions[i]

\* C21 amended: a generation call is only ever outstanding for a question
\* that has a truthy game_id and a truthy original_config; every other question
\* keeps the record the matcher left, but is not in the output of
\* update_game_configs, which holds exactly the questions of the config
\* tasks, in task order.
C21_OnlyEligibleProcessed ==
    /\ \A t \in 1..Len(cfg) :
        cfg[t].state = "calling" =>
            /\ TruthyId(questions[cfg[t].q]["game_id"])
            /\ Has(questions[cfg[t].q], "original_config")
            /\ TruthyText(questions[cfg[t].q]["original_config"])
    /\ ConfigStageEntered =>
        \A i \in 1..Len(questions) :
            ~HasConfigTask(i) =>
                /\ questions[i] = AsMatched(i)
                /\ ~(TruthyId(questions[i]["game_id"])
                        /\ TruthyText(questions[i]["original_config"]))
    /\ (Done /\ response.kind = "ok") =>
        /\ Len(response.questions) = Len(cfg)
        /\ \A t \in 1..Len(cfg) : response.questions[t] = questions[cfg[t].q]

\* C21 witness: a response with one question, while a second question,
\* matched to game 8 whose config is empty, got no config task, kept its
\* record and is not in the response.
C21_Witness ==
    /\ Done /\ response.kind = "ok"
    /\ Len(response.questions) = 1
    /\ \E i \in 1..Len(questions) :
        /\ ~HasConfigTask(i)
        /\ questions[i]["game_id"] = 8
        /\ questions[i] = AsMatched(i)
        /\ \A j \in 1..Len(response.questions) : response.questions[j] # questions[i]

-----------------------------------------------------------------------------
(* Properties of the split (checked under SpecPart) *)

RECURSIVE ConcatAll(_)
ConcatAll(ss) == IF ss = <<>> THEN <<>> ELSE Head(ss) \o ConcatAll(Tail(ss))

SplitOver == gen_pc \in {"issue", "returned"}

\* C22: for n >= 1 the loop builds exactly n parts; joined in index order
\* they are the text that was split; each of the first n-1 has length
\* floor(len / n) and the last one holds the rest.
C22_PartsCoverText ==
    (SplitOver /\ n >= 1) =>
        /\ Len(parts) = n
        /\ ConcatAll(parts) = context
        /\ \A i \in 1..(n - 1) : Len(parts[i]) = Len(context) \div n
        /\ Len(parts[n]) = Len(context) - (n - 1) * (Len(context) \div n)

\* C22 witness: a text of 3 characters split into 2 parts of lengths 1 and 2.
C22_Witness ==
    /\ gen_pc = "returned"
    /\ n = 2 /\ Len(context) = 3
    /\ Len(parts) = 2 /\ Len(parts[1]) = 1 /\ Len(parts[2]) = 2
    /\ parts[1] \o parts[2] = context

\* C23 as stated: for n <= 1, zero and negative n included, the split raises
\* nothing and yields one part holding the whole text, for which exactly one
\* generation call is issued.
C23_OnePartForSmallN ==
    n <= 1 =>
        /\ gen_pc # "raised"
        /\ gen_pc = "returned" =>
            /\ Len(parts) = 1 /\ parts[1] = context
            /\ calls = 1 /\ sent = <<context>>

\* the leading two thirds of a text
TwoThirds(t) == SubSeq(t, 1, (2 * Len(t)) \div 3)

\* C24 as stated: the part texts handed to generation calls hold nothing from
\* beyond the leading two thirds of the source text (joined, they are a
\* prefix of it), while the theme summarizer is handed the full text.
C24_SplitsLeadingTwoThirds ==
    (gen_pc = "returned" /\ n >= 1) =>
        /\ Len(ConcatAll(sent)) <= Len(TwoThirds(context))
        /\ ConcatAll(sent) = SubSeq(context, 1, Len(ConcatAll(sent)))
        /\ theme_text = context

\* C24 amended: nothing is truncated. The part texts handed to the generation
\* calls, joined in call order, are the whole source text, and the theme
\* summarizer is handed that same whole text.
C24_NoTruncation ==
    /\ theme_text \in {NoText, context}
    /\ gen_pc # "start" => theme_text = context
    /\ (gen_pc = "returned" /\ n >= 1) =>
        /\ Len(sent) = n
        /\ ConcatAll(sent) = context

\* C24 witness: a text of 3 characters went to 2 calls; the second call got
\* the last two characters, which lie beyond the leading two thirds.
C24_Witness ==
    /\ gen_pc = "returned"
    /\ n = 2 /\ Len(context) = 3
    /\ Len(sent) = 2
    /\ sent[2] = SubSeq(context, 2, 3)
    /\ theme_text = context

-----------------------------------------------------------------------------
(* Further properties of a request run (checked under Spec) *)

\* the ids of the store records that fit question q of a request for dev
Candidates(q, dev) == {g.id : g \in {h \in GameData : Compatible(h, q, dev)}}

\* C25: within a request (one device, one store content) any two runs of
\* the matcher for questions of the same type whose queries succeeded drew
\* from one and the same candidate set, the records whose device and
\* question_type both match: both hold an id of that set, or the set is
\* empty and both hold none. What an earlier run picked changes nothing.
C25_SameCandidateSet ==
    \A i, j \in 1..Len(questions) :
        (/\ match_state[i] = "ok" /\ match_state[j] = "ok"
         /\ questions[i]["question_type"] = questions[j]["question_type"]) =>
            LET cand == Candidates(questions[i], device)
            IN IF cand = {}
               THEN questions[i]["game_id"] = NoneId /\ questions[j]["game_id"] = NoneId
               ELSE questions[i]["game_id"] \in cand /\ questions[j]["game_id"] \in cand

\* C25 witness: two multiple_choice questions of one web request matched
\* from the same candidate set {7, 8} with different picks.
C25_Witness ==
    /\ pc = "match" /\ device = "web"
    /\ \E i, j \in 1..Len(questions) :
        /\ i # j
        /\ match_state[i] = "ok" /\ match_state[j] = "ok"
        /\ questions[i]["question_type"] = "multiple_choice"
        /\ questions[j]["question_type"] = "multiple_choice"
        /\ questions[i]["game_id"] = 7 /\ questions[j]["game_id"] = 8

\* no task that was created is still waiting
NoTaskWaiting ==
    /\ quiz_task.started => quiz_task.done
    /\ theme_task.started => theme_task.done
    /\ \A i \in 1..Len(match_state) : match_state[i] \in {"failed", "ok"}
    /\ \A t \in 1..Len(cfg) : cfg[t].state \in {"done", "raised"}

\* C26: every run eventually ends (the handler returns its response or an
\* error, or an exception leaves it) with no task still waiting.
C26_Terminates == <>(Done /\ NoTaskWaiting)

\* C26 witness: a run that went through every stage with two config tasks,
\* one of which needed both of its attempts, and returned its response.
C26_Witness ==
    /\ Done /\ NoTaskWaiting
    /\ response.kind = "ok"
    /\ Len(cfg) = 2
    /\ \E t \in 1..Len(cfg) : cfg[t].attempt = 2

\* C27 as stated: while the store query of one question is out, the matcher
\* task of any other question that has not started yet can start its own
\* query (so that two queries are in flight at once).
C27_QueriesOverlap ==
    \A i, j \in 1..Len(questions) :
        (i # j /\ match_state[i] = "querying" /\ match_state[j] = "pending") =>
            ENABLED MatchQuery(j)

\* the step is the return of question i's own matcher task
OwnMatchStep(i) ==
    /\ pc = "match"
    /\ match_state[i] = "querying"
    /\ match_state'[i] \in {"failed", "ok"}

\* the step is the end of the one config task that was created for question i
OwnConfigStep(i) ==
    \E t \in 1..Len(cfg) :
        /\ cfg[t].q = i
        /\ \A u \in 1..Len(cfg) : cfg[u].q = i => u = t
        /\ cfg[t].state = "calling" /\ cfg'[t].state = "done"

\* what a step may write: a question only through its own task, one question
\* at most, and never the theme summary once it exists
OwnWritesOnly ==
    /\ Len(questions') = Len(questions) =>
        \A i \in 1..Len(questions) :
            questions'[i] # questions[i] =>
                /\ OwnMatchStep(i) \/ OwnConfigStep(i)
                /\ \A j \in 1..Len(questions) : j # i => questions'[j] = questions[j]
    /\ theme_task.done => theme_task' = theme_task

\* C28: a step that changes the record of a question is the step of that
\* question's own matcher task or of its own, single config task, and it
\* changes no other question; no two config tasks share a question; and the
\* theme summary, once produced, is never written again. (The store's
\* records are GameData, which no step can write.)
C28_OwnQuestionOnly ==
    /\ [](\A t, u \in 1..Len(cfg) : cfg[t].q = cfg[u].q => t = u)
    /\ [][OwnWritesOnly]_vars

\* C28 witness: two config tasks, for two different questions, have both
\* written the code of their own question.
C28_Witness ==
    /\ Len(cfg) = 2 /\ cfg[1].q # cfg[2].q
    /\ cfg[1].state = "done" /\ cfg[2].state = "done"
    /\ Has(questions[cfg[1].q], "code") /\ Has(questions[cfg[2].q], "code")

-----------------------------------------------------------------------------
(* A further property of generate_quiz_questions (checked under SpecGen) *)

\* C29 as stated: every record of a tool-use answer is in what its part
\* returns, with the fields it lacked filled in by the defaults; a record
\* that lacks a field does not make the part lose its records.
C29_EveryRecordBackfilled ==
    GenReturned =>
        \A i \in PartIndexes(n) :
            responses[i].kind = "tool_use" =>
                /\ Len(results[i]) = Len(responses[i].questions)
                /\ \A k \in 1..Len(results[i]) :
                    LET in == responses[i].questions[k]
                        out == results[i][k]
                    IN /\ Has(out, "difficulty") /\ Has(out, "success_pun")
                       /\ ~Has(in, "difficulty") => out["difficulty"] = "medium"
                       /\ ~Has(in, "success_pun") => out["success_pun"] = "Great job!"
                       /\ out["correct_answer"] = in["correct_answer"]

====
